---- MODULE Spec2Model ----
(***************************************************************************)
(* Model of server.js (Supabase Storage relay): POST /api/upload,          *)
(* GET /api/files, GET /api/dl, ensureBucket, listFolder, mapEntryToItem.  *)
(*                                                                         *)
(* Strings are sequences of one-character strings, so that path.extname,   *)
(* path.basename, String.replace, String.split and the key template are    *)
(* computed character by character as the code computes them.              *)
(***************************************************************************)
EXTENDS Integers, Sequences, FiniteSets, TLC

\* ------------------------------------------------------------------------
\* Bounds of the model (not program constants)
\* ------------------------------------------------------------------------
\* longest original filename drawn in SpecNaming
MaxNameLen == 4

\* ------------------------------------------------------------------------
\* Strings
\* ------------------------------------------------------------------------
Null == "null"

Digit == <<"0", "1", "2", "3", "4", "5", "6", "7", "8", "9">>

DigitChars == {Digit[i] : i \in 1..10}

\* \w of a JavaScript regular expression, restricted to the characters the
\* model draws from
WordChars == DigitChars \cup {"a", "b", "f", "p", "u", "l", "o", "d", "s", "_"}

\* s.startsWith(p)
StartsWith(s, p) ==
    /\ Len(p) <= Len(s)
    /\ SubSeq(s, 1, Len(p)) = p

\* s.endsWith(p)
EndsWith(s, p) ==
    /\ Len(p) <= Len(s)
    /\ SubSeq(s, Len(s) - Len(p) + 1, Len(s)) = p

\* s.indexOf(sub), 1-based; 0 when absent
IndexOf(s, sub) ==
    LET hits == {i \in 1..(Len(s) - Len(sub) + 1) :
                    SubSeq(s, i, i + Len(sub) - 1) = sub}
    IN  IF hits = {} THEN 0 ELSE CHOOSE i \in hits : \A j \in hits : i <= j

\* s.lastIndexOf(c) for one character, 1-based; 0 when absent
LastIndexOfChar(s, c) ==
    LET hits == {i \in 1..Len(s) : s[i] = c}
    IN  IF hits = {} THEN 0 ELSE CHOOSE i \in hits : \A j \in hits : i >= j

\* String(n) of a non-negative integer
RECURSIVE ToDigits(_)
ToDigits(n) ==
    IF n < 10 THEN <<Digit[n + 1]>>
    ELSE ToDigits(n \div 10) \o <<Digit[(n % 10) + 1]>>

MARK == <<"_", "_">>

\* ------------------------------------------------------------------------
\* node:path (posix)
\* ------------------------------------------------------------------------
\* the path without its trailing slashes
RECURSIVE StripTrailingSlashes(_)
StripTrailingSlashes(p) ==
    IF Len(p) > 0 /\ p[Len(p)] = "/"
    THEN StripTrailingSlashes(SubSeq(p, 1, Len(p) - 1))
    ELSE p

\* path.basename(p): the last segment of the path
LastSegment(p) ==
    LET q == StripTrailingSlashes(p)
        k == LastIndexOfChar(q, "/")
    IN  SubSeq(q, k + 1, Len(q))

\* path.extname(p): from the last "." of the last segment to its end; empty
\* when there is no ".", when the "." opens the segment, or when the segment
\* is ".."
extname(p) ==
    LET b == LastSegment(p)
        d == LastIndexOfChar(b, ".")
    IN  IF d = 0 \/ d = 1 \/ b = <<".", ".">>
        THEN <<>>
        ELSE SubSeq(b, d, Len(b))

\* path.basename(p, suffix): the last segment with the suffix removed, unless
\* the suffix is the whole segment
basename(p, suffix) ==
    LET b == LastSegment(p)
    IN  IF Len(suffix) > 0 /\ Len(suffix) <= Len(p) /\ suffix = p THEN <<>>
        ELSE IF Len(suffix) > 0 /\ EndsWith(b, suffix) /\ b # suffix
        THEN SubSeq(b, 1, Len(b) - Len(suffix))
        ELSE b

\* ------------------------------------------------------------------------
\* Naming scheme
\* ------------------------------------------------------------------------
\* base.replace(/[^\w\-]+/g, "_"): every maximal run of characters outside
\* [A-Za-z0-9_-] becomes one "_"
RECURSIVE ReplaceRuns(_, _, _)
ReplaceRuns(s, i, inRun) ==
    IF i > Len(s) THEN <<>>
    ELSE IF s[i] \in WordChars \cup {"-"}
         THEN <<s[i]>> \o ReplaceRuns(s, i + 1, FALSE)
         ELSE IF inRun THEN ReplaceRuns(s, i + 1, TRUE)
              ELSE <<"_">> \o ReplaceRuns(s, i + 1, TRUE)

sanitize(s) == ReplaceRuns(s, 1, FALSE)

UPLOAD_PREFIX == <<"u", "p", "l", "o", "a", "d", "s">>

\* the stored name `${base}__${now}${ext}` of an uploaded file
StoredName(originalname, now) ==
    LET ext  == extname(originalname)
        base == sanitize(basename(originalname, ext))
    IN  base \o MARK \o ToDigits(now) \o ext

\* const key = `${UPLOAD_PREFIX}/${base}__${now}${ext}`
UploadKey(originalname, now) ==
    UPLOAD_PREFIX \o <<"/">> \o StoredName(originalname, now)

\* s.split("__")[0]
SplitFirst(s) ==
    LET k == IndexOf(s, MARK)
    IN  IF k = 0 THEN s ELSE SubSeq(s, 1, k - 1)

\* name.includes("__") ? name.split("__")[0] + ext : name
DisplayName(name) ==
    LET ext == extname(name)
    IN  IF IndexOf(name, MARK) # 0 THEN SplitFirst(name) \o ext ELSE name

\* const niceName = path.basename(key).split("__")[0]
NiceName(key) == SplitFirst(basename(key, <<>>))

\* ------------------------------------------------------------------------
\* Bounds of the server model
\* ------------------------------------------------------------------------
\* most files in one upload batch of the model (upload.array("file", 20)
\* caps a real batch at 20)
MaxBatch == 2
\* most backend calls that fail for a reason of the network or the service
MaxFaults == 1
\* milliseconds the wall clock advances during a run
MaxTicks == 1
\* objects under uploads/ in the large initial bucket: one full page
BulkCount == 100

\* ------------------------------------------------------------------------
\* State
\* ------------------------------------------------------------------------
VARIABLES
    bucket,   \* the bucket BUCKET: "absent", "private" or "public"
    store,    \* the objects of the bucket, in the order they were written
    clock,    \* Date.now(), in ms
    faults,   \* backend calls that failed so far
    up,       \* per POST /api/upload request: the handler's locals
    ls,       \* per GET /api/files request: the handler's locals
    dl        \* the GET /api/dl request: its position, locals and response

vars == <<bucket, store, clock, faults, up, ls, dl>>

Uploaders == {"u1", "u2"}
Listers == {"l1", "l2"}

\* ------------------------------------------------------------------------
\* Storage backend (what supabase.storage answers)
\* ------------------------------------------------------------------------
Str_a_p == <<"a", ".", "p">>
Str_b_p == <<"b", ".", "p">>

\* a stored object
Obj(key, size, at) == [key |-> key, size |-> size, updated_at |-> at]

StoredKeys(st) == {st[i].key : i \in 1..Len(st)}

Reverse(s) == [i \in 1..Len(s) |-> s[Len(s) + 1 - i]]

\* whether a backend call may fail now, and the count after it
FaultChoices == IF faults < MaxFaults THEN {FALSE, TRUE} ELSE {FALSE}

Faulted(fail) == IF fail THEN faults + 1 ELSE faults

\* storage.createBucket(BUCKET, {public: true}): an error when the call
\* fails or the bucket exists already
CreateBucketOk(fail) == ~fail /\ bucket = "absent"

\* storage.updateBucket(BUCKET, {public: true}): an error when the call
\* fails or there is no bucket
UpdateBucketOk(fail) == ~fail /\ bucket # "absent"

\* the message of the backend's error for a write on an existing key
KeyConflict == "The resource already exists"

\* .upload(key, buffer, {upsert}): "none", or the message of the error
UploadError(st, key, upsert, fail) ==
    IF fail THEN "fetch failed"
    ELSE IF bucket = "absent" THEN "Bucket not found"
    ELSE IF ~upsert /\ key \in StoredKeys(st) THEN KeyConflict
    ELSE "none"

\* the updated_at the backend gives a write: the time of its own clock, which
\* is not behind the server's and gives every write a later time than the
\* writes before it
WriteTime(st) ==
    IF st # <<>> /\ st[Len(st)].updated_at >= clock
    THEN st[Len(st)].updated_at + 1
    ELSE clock

\* the bucket's objects after a successful .upload(key, ...): the object is
\* there whole, with the payload's size and the time of the write
StoreUpload(st, key, size) ==
    IF key \in StoredKeys(st)
    THEN Append(SelectSeq(st, LAMBDA o : o.key # key), Obj(key, size, WriteTime(st)))
    ELSE Append(st, Obj(key, size, WriteTime(st)))

\* the directory part of a prefix: "" or prefix + "/"
Dir(prefix) == IF prefix = <<>> THEN <<>> ELSE prefix \o <<"/">>

\* the rest of a key below a prefix
Rest(prefix, key) == SubSeq(key, Len(Dir(prefix)) + 1, Len(key))

\* A field of an entry that may be missing is the sequence of its values:
\* <<>> when the entry has none, <<v>> when it has v. The id is Null or a
\* string.
\* a file entry of a listing: the id is the object's uuid, the size is in
\* metadata and there is no size at the top level
FileEntry(prefix, o) ==
    [name |-> Rest(prefix, o.key), id |-> "uuid", size |-> <<>>,
     metadata |-> <<[size |-> o.size]>>,
     updated_at |-> <<o.updated_at>>, created_at |-> <<o.updated_at>>]

\* a folder entry of a listing: a name, a null id, and nothing else
FolderEntry(name) ==
    [name |-> name, id |-> Null, size |-> <<>>, metadata |-> <<>>,
     updated_at |-> <<>>, created_at |-> <<>>]

\* s < t in the order of the characters' codes
CharCode(c) ==
    CASE c = "-" -> 45 [] c = "." -> 46 [] c = "/" -> 47
      [] c \in DigitChars -> 48 + (CHOOSE i \in 0..9 : Digit[i + 1] = c)
      [] c = "_" -> 95 [] c = " " -> 32
      [] c = "a" -> 97 [] c = "b" -> 98 [] c = "d" -> 100 [] c = "f" -> 102
      [] c = "l" -> 108 [] c = "o" -> 111 [] c = "p" -> 112 [] c = "s" -> 115
      [] c = "u" -> 117

RECURSIVE StrLess(_, _)
StrLess(s, t) ==
    IF t = <<>> THEN FALSE
    ELSE IF s = <<>> THEN TRUE
    ELSE IF s[1] # t[1] THEN CharCode(s[1]) < CharCode(t[1])
    ELSE StrLess(Tail(s), Tail(t))

\* the entries of a set, by name ascending
RECURSIVE ByName(_)
ByName(S) ==
    IF S = {} THEN <<>>
    ELSE LET m == CHOOSE e \in S : \A x \in S : ~StrLess(x.name, e.name)
         IN  <<m>> \o ByName(S \ {m})

\* the folders directly below a prefix
FolderEntries(st, prefix) ==
    LET below == {i \in 1..Len(st) :
                    /\ StartsWith(st[i].key, Dir(prefix))
                    /\ IndexOf(Rest(prefix, st[i].key), <<"/">>) # 0}
        first(k) == SubSeq(Rest(prefix, k), 1, IndexOf(Rest(prefix, k), <<"/">>) - 1)
    IN  {FolderEntry(first(st[i].key)) : i \in below}

\* the objects directly below a prefix, in the order they were written
FilesBelow(st, prefix) ==
    SelectSeq(st, LAMBDA o : /\ StartsWith(o.key, Dir(prefix))
                             /\ Len(o.key) > Len(Dir(prefix))
                             /\ IndexOf(Rest(prefix, o.key), <<"/">>) = 0)

\* one page of a sequence
Page(all, lim, offset) ==
    SubSeq(all, offset + 1, IF offset + lim < Len(all) THEN offset + lim ELSE Len(all))

\* .list(prefix, {limit, offset, sortBy: {column: "updated_at", order: "desc"}}):
\* the folders (no updated_at) first, then the files, newest first. No two
\* objects have the same updated_at and the bucket's objects are kept in the
\* order of their updated_at (StoreOrdered), so the order is the reverse of
\* the order of the writes
ListByUpdated(st, prefix, lim, offset) ==
    LET files == FilesBelow(st, prefix)
        all == ByName(FolderEntries(st, prefix))
                 \o [i \in 1..Len(files) |-> FileEntry(prefix, Reverse(files)[i])]
    IN  Page(all, lim, offset)

\* .list(prefix): the client's defaults are limit 100, offset 0 and
\* sortBy {column: "name", order: "asc"}
ListByName(st, prefix, lim) ==
    LET files == FilesBelow(st, prefix)
        all == ByName(FolderEntries(st, prefix)
                      \cup {FileEntry(prefix, files[i]) : i \in 1..Len(files)})
    IN  Page(all, lim, 0)

\* whether a .list call answers an error
ListError(fail) == fail \/ bucket = "absent"

\* ------------------------------------------------------------------------
\* ensureBucket
\* ------------------------------------------------------------------------
\* where ensureBucket goes after getBucket answered: createBucket when the
\* call failed or found no bucket, updateBucket when the bucket is private,
\* and back to the handler otherwise
AfterGetBucket(fail) ==
    IF fail \/ bucket = "absent" THEN "create"
    ELSE IF bucket # "public" THEN "update"
    ELSE "ensured"

\* the bucket after createBucket; its error is logged and swallowed
BucketAfterCreate(fail) == IF CreateBucketOk(fail) THEN "public" ELSE bucket

\* the bucket after updateBucket; its error is logged and swallowed
BucketAfterUpdate(fail) == IF UpdateBucketOk(fail) THEN "public" ELSE bucket

\* ------------------------------------------------------------------------
\* POST /api/upload
\* ------------------------------------------------------------------------
File(name, size) == [originalname |-> name, size |-> size]

\* the files a request of the model may carry: two names, and a payload size
\* of the request's own, so that an overwritten object would show
PayloadSize(u) == IF u = "u1" THEN 1 ELSE 2

FileChoices(u) == {File(Str_a_p, PayloadSize(u)), File(Str_b_p, PayloadSize(u))}

RECURSIVE SeqsUpTo(_, _)
SeqsUpTo(S, n) ==
    IF n = 0 THEN {<<>>}
    ELSE LET shorter == SeqsUpTo(S, n - 1)
         IN  shorter \cup {Append(q, x) : q \in {r \in shorter : Len(r) = n - 1}, x \in S}

Batches(u) == SeqsUpTo(FileChoices(u), MaxBatch)

NoResp == [status |-> 0]

IdleUpload ==
    [pc |-> "idle", files |-> <<>>, i |-> 0, now |-> 0, keys |-> <<>>, resp |-> NoResp]

\* the handler once ensureBucket has returned: the zero-file answer, or the
\* batch's timestamp and the first upload call
UploadAfterEnsure(r) ==
    IF Len(r.files) = 0
    THEN [r EXCEPT !.pc = "done",
                   !.resp = [status |-> 200, body |-> [ok |-> TRUE, count |-> 0]]]
    ELSE [r EXCEPT !.pc = "put", !.now = clock, !.i = 1]

\* the handler once the upload call of file i has answered
UploadAfterPut(r, key, err) ==
    IF err # "none"
    THEN [r EXCEPT !.pc = "done",
                   !.resp = [status |-> 500, body |-> [ok |-> FALSE, error |-> err]]]
    ELSE LET keys == Append(r.keys, key)
         IN  IF r.i = Len(r.files)
             THEN [r EXCEPT !.pc = "done", !.keys = keys,
                            !.resp = [status |-> 200,
                                      body |-> [ok |-> TRUE, count |-> Len(keys),
                                                files |-> keys]]]
             ELSE [r EXCEPT !.keys = keys, !.i = r.i + 1]

\* the option set wrongly: upsert: true
UpsertOn == TRUE

\* upsert: false
Upsert == FALSE

\* ------------------------------------------------------------------------
\* GET /api/files
\* ------------------------------------------------------------------------
\* const limit = 100
limit == 100

\* typeof entry.id === "string" || typeof entry.size === "number"
IsFile(entry) == entry.id # Null \/ entry.size # <<>>

\* entry.metadata?.size ?? entry.size ?? 0
EntrySize(entry) ==
    IF entry.metadata # <<>> THEN entry.metadata[1].size
    ELSE IF entry.size # <<>> THEN entry.size[1]
    ELSE 0

\* new Date(entry.updated_at || entry.created_at || new Date().toISOString())
\* .getTime(), the times in the unit of the clock
EntryTime(entry) ==
    IF entry.updated_at # <<>> THEN entry.updated_at[1]
    ELSE IF entry.created_at # <<>> THEN entry.created_at[1]
    ELSE clock

\* mapEntryToItem: the item of a file entry. url, type and dl are functions
\* of key and are left out
mapEntryToItem(prefix, entry) ==
    [name |-> DisplayName(entry.name),
     key |-> IF prefix # <<>> THEN prefix \o <<"/">> \o entry.name ELSE entry.name,
     size |-> EntrySize(entry),
     uploadedAt |-> EntryTime(entry)]

\* subPrefix = prefix ? `${prefix}/${entry.name}` : entry.name
SubPrefix(prefix, entry) ==
    IF prefix # <<>> THEN prefix \o <<"/">> \o entry.name ELSE entry.name

\* an offset stepped wrongly: the next page starts one entry too far
NextOffsetSkips(offset) == offset + limit + 1

\* offset += limit
NextOffset(offset) == offset + limit

\* one activation of listFolder: its prefix, offset and out, the page it is
\* walking and the index of the entry it is at (0: the page is awaited)
Frame(prefix) ==
    [prefix |-> prefix, offset |-> 0, out |-> <<>>, data |-> <<>>, idx |-> 0]

\* the index of the first folder entry of a page at or after i, or one past
\* the page
NextFolder(data, i) ==
    LET at == {j \in i..Len(data) : ~IsFile(data[j])}
    IN  IF at = {} THEN Len(data) + 1 ELSE CHOOSE j \in at : \A k \in at : j <= k

\* listFolder from the entry the top activation is at, up to its next await:
\* file entries are pushed to out, a folder entry starts a nested listFolder,
\* a short page ends the activation and a full one asks for the next page.
\* Gives the stack, and the out of the outermost activation once it returns.
RECURSIVE Walk(_)
RECURSIVE Return(_)
Walk(stack) ==
    LET n == Len(stack)
        f == stack[n]
        j == NextFolder(f.data, f.idx)
        items == [k \in 1..(j - f.idx) |-> mapEntryToItem(f.prefix, f.data[f.idx + k - 1])]
        g == [f EXCEPT !.out = f.out \o items, !.idx = j]
        below == SubSeq(stack, 1, n - 1)
    IN  IF j <= Len(f.data)
        THEN [returned |-> FALSE, out |-> <<>>,
              stack |-> below \o <<g, Frame(SubPrefix(f.prefix, f.data[j]))>>]
        ELSE IF Len(f.data) < limit
        THEN Return(below \o <<g>>)
        ELSE [returned |-> FALSE, out |-> <<>>,
              stack |-> below \o <<[g EXCEPT !.offset = NextOffset(f.offset),
                                              !.data = <<>>, !.idx = 0]>>]

Return(stack) ==
    LET n == Len(stack)
        f == stack[n]
    IN  IF n = 1
        THEN [returned |-> TRUE, out |-> f.out, stack |-> <<>>]
        ELSE LET parent == stack[n - 1]
             IN  Walk(SubSeq(stack, 1, n - 2)
                      \o <<[parent EXCEPT !.out = parent.out \o f.out,
                                           !.idx = parent.idx + 1]>>)

\* listFolder once the awaited page has answered with data
AfterPage(stack, data) ==
    LET n == Len(stack)
    IN  IF Len(data) = 0
        THEN Return(stack)
        ELSE Walk(SubSeq(stack, 1, n - 1) \o <<[stack[n] EXCEPT !.data = data, !.idx = 1]>>)

\* const k = `${it.key}|${it.size}|${it.uploadedAt}`
DedupKey(it) == it.key \o <<"|">> \o ToDigits(it.size) \o <<"|">> \o ToDigits(it.uploadedAt)

\* The loop over collected[lo..hi] started with an empty seen: the set seen
\* after it, and the indices of the items it pushed. The loop over a range is
\* the loop over its first half, then the loop over its second half with the
\* first half's seen: that pushes what the second half would push on its own,
\* less what the first half has seen. k[i] is the k of collected[i].
RECURSIVE SeenLoop(_, _, _)
SeenLoop(k, lo, hi) ==
    IF lo > hi THEN [seen |-> {}, pushed |-> <<>>]
    ELSE IF lo = hi THEN [seen |-> {k[lo]}, pushed |-> <<lo>>]
    ELSE LET mid == (lo + hi) \div 2
             a == SeenLoop(k, lo, mid)
             b == SeenLoop(k, mid + 1, hi)
         IN  [seen |-> a.seen \cup b.seen,
              pushed |-> a.pushed \o SelectSeq(b.pushed, LAMBDA i : k[i] \notin a.seen)]

\* for (const it of collected) { const k = K(it); if (seen.has(k)) continue;
\* seen.add(k); items.push(it) }
DedupBy(K(_), collected) ==
    LET n == Len(collected)
        k == [i \in 1..n |-> K(collected[i])] \o <<>>
        pushed == SeenLoop(k, 1, n).pushed
    IN  [p \in 1..Len(pushed) |-> collected[pushed[p]]] \o <<>>

\* a dedup that skips nothing
DedupNothing(collected) == collected

Dedup(collected) == DedupBy(DedupKey, collected)

\* the comparator reversed: (a, b) => a.uploadedAt - b.uploadedAt
CompareOldestFirst(a, b) == a.uploadedAt - b.uploadedAt

\* (a, b) => b.uploadedAt - a.uploadedAt
Compare(a, b) == b.uploadedAt - a.uploadedAt

\* items.sort(compare): Array.prototype.sort is stable, and compare orders
\* the items by one number, so the result is: the items that compare before
\* a chosen item, sorted; then the items that compare equal to it, in the
\* order they had; then the items that compare after it, sorted
RECURSIVE SortItems(_)
SortItems(items) ==
    IF Len(items) <= 1 THEN items
    ELSE LET pivot == items[(Len(items) + 1) \div 2]
             before == SelectSeq(items, LAMBDA x : Compare(x, pivot) < 0)
             equal == SelectSeq(items, LAMBDA x : Compare(x, pivot) = 0)
             after == SelectSeq(items, LAMBDA x : Compare(x, pivot) > 0)
         IN  SortItems(before) \o equal \o SortItems(after)

\* the 200 answer: dedup, then newest first
FilesResponse(collected) == [status |-> 200, body |-> SortItems(Dedup(collected))]

\* The second server of the file (lines 194-367) has the same ensureBucket,
\* upload handler and listFolder; it differs in the item only, which has no
\* key and no dl, and in the dedup, which reads the item's url.
\* getPublicUrl(fullKey).publicUrl: the bucket's public base and the key
PublicUrl(key) == <<"/", "p", "u", "b", "l", "i", "c", "/">> \o key

ItemV2(it) ==
    [name |-> it.name, url |-> PublicUrl(it.key), size |-> it.size,
     uploadedAt |-> it.uploadedAt]

\* const k = `${it.url}|${it.size}|${it.uploadedAt}`
DedupKeyV2(it) == it.url \o <<"|">> \o ToDigits(it.size) \o <<"|">> \o ToDigits(it.uploadedAt)

DedupV2(collected) == DedupBy(DedupKeyV2, collected)

FilesResponseV2(collected) ==
    [status |-> 200,
     body |-> SortItems(DedupV2([i \in 1..Len(collected) |-> ItemV2(collected[i])] \o <<>>))]

\* /^\d{4}$/.test(name) and /^\d{2}$/.test(name)
AllDigits(name, n) == Len(name) = n /\ \A i \in 1..n : name[i] \in DigitChars

\* (list || []).filter(e => !e.id && /^\d{n}$/.test(e.name)).map(e => e.name)
FolderNames(list, n) ==
    LET kept == SelectSeq(list, LAMBDA e : e.id \in {Null, ""} /\ AllDigits(e.name, n))
    IN  [i \in 1..Len(kept) |-> kept[i].name]

\* the locals of the handler before a request; failed (a list call of the
\* request answered an error), startLen (the objects stored when the request
\* arrived) and endLen (the objects stored when it was answered) record the
\* history the properties speak of
IdleList ==
    [pc |-> "idle", phase |-> "none", stack |-> <<>>, collected |-> <<>>,
     years |-> <<>>, year |-> <<>>, months |-> <<>>, resp |-> NoResp,
     failed |-> FALSE, startLen |-> 0, endLen |-> 0]

\* the handler once ensureBucket has returned: listFolder("")
ListAfterEnsure(r) ==
    [r EXCEPT !.pc = "list", !.phase = "root", !.stack = <<Frame(<<>>)>>]

\* the catch of the handler
ListThrow(r) ==
    [r EXCEPT !.pc = "done", !.stack = <<>>, !.failed = TRUE,
              !.resp = [status |-> 500, body |-> <<>>]]

\* after the loops over years and months: dedup, sort, res.json(items)
ListFinish(r) ==
    [r EXCEPT !.pc = "done", !.stack = <<>>, !.resp = FilesResponse(r.collected),
              !.endLen = Len(store)]

\* the loops over years and months, up to the next await
ListNextLegacy(r) ==
    IF Len(r.months) > 0
    THEN [r EXCEPT !.pc = "list", !.phase = "legacy",
                   !.stack = <<Frame(r.year \o <<"/">> \o r.months[1])>>,
                   !.months = Tail(r.months)]
    ELSE IF Len(r.years) > 0
    THEN [r EXCEPT !.pc = "yearList", !.year = r.years[1], !.years = Tail(r.years)]
    ELSE ListFinish(r)

\* the handler once a listFolder call of it has returned out
ListAfterFolder(r, out) ==
    LET q == [r EXCEPT !.collected = r.collected \o out, !.stack = <<>>]
    IN  IF r.phase = "root"
        THEN [q EXCEPT !.phase = "uploads", !.stack = <<Frame(UPLOAD_PREFIX)>>]
        ELSE IF r.phase = "uploads"
        THEN [q EXCEPT !.pc = "rootList"]
        ELSE ListNextLegacy(q)

\* the handler once a page of listFolder has answered
ListAfterPage(r, err, data) ==
    IF err THEN ListThrow(r)
    ELSE LET w == AfterPage(r.stack, data)
         IN  IF w.returned THEN ListAfterFolder(r, w.out)
             ELSE [r EXCEPT !.stack = w.stack]

\* const { data: rootList } = await ...list(""): the error is not read
ListAfterRootList(r, err, data) ==
    LET q == [r EXCEPT !.years = FolderNames(IF err THEN <<>> ELSE data, 4),
                       !.failed = r.failed \/ err]
    IN  ListNextLegacy(q)

\* const { data: months } = await ...list(y): the error is not read
ListAfterYearList(r, err, data) ==
    LET q == [r EXCEPT !.months = FolderNames(IF err THEN <<>> ELSE data, 2),
                       !.failed = r.failed \/ err]
    IN  ListNextLegacy(q)

\* ------------------------------------------------------------------------
\* GET /api/dl
\* ------------------------------------------------------------------------
\* createSignedUrl(key, 60, {download}): an error when the call fails, or
\* there is no bucket or no such object
SignError(st, key, fail) == fail \/ bucket = "absent" \/ key \notin StoredKeys(st)

\* req.query.key: a string, nothing (undefined), or, when the query names
\* key more than once, an array of strings
Query(type, value) == [type |-> type, value |-> value]

\* the handler between requests: pc is "idle" or "sign" (at the await of
\* createSignedUrl), reply is what the backend has answered to that call
\* ("none" while it has not), resp the last response sent
IdleDl == [pc |-> "idle", key |-> <<>>, niceName |-> <<>>, reply |-> "none",
           resp |-> NoResp]

\* the handler up to its await: 400 without a key ("" is no key either);
\* path.basename throws on a key that is no string, and the catch answers
\* 500; else the call is sent with download: niceName
DlStart(r, q) ==
    IF q.type = "undefined" \/ (q.type = "string" /\ q.value = <<>>)
    THEN [IdleDl EXCEPT !.resp = [status |-> 400, body |-> "Missing key"]]
    ELSE IF q.type # "string"
    THEN [IdleDl EXCEPT !.resp = [status |-> 500, body |-> "Download error"]]
    ELSE [r EXCEPT !.pc = "sign", !.key = q.value, !.niceName = NiceName(q.value),
                   !.reply = "none"]

\* the handler once createSignedUrl has answered: 404 on an error, else the
\* redirect to the signed URL, which forces the download name niceName
DlAfterSign(r) ==
    IF r.reply = "error"
    THEN [IdleDl EXCEPT !.resp = [status |-> 404, body |-> "File not found",
                                  key |-> r.key]]
    ELSE [IdleDl EXCEPT !.resp = [status |-> 302, key |-> r.key,
                                  download |-> r.niceName]]

\* ------------------------------------------------------------------------
\* Initial states
\* ------------------------------------------------------------------------
Str_2023 == <<"2", "0", "2", "3">>
Str_07 == <<"0", "7">>

\* a bucket with a legacy YYYY/MM object, an uploaded object and a root object
SmallStore ==
    <<Obj(Str_2023 \o <<"/">> \o Str_07 \o <<"/", "f">>, 3, 1),
      Obj(UploadKey(Str_b_p, 2), 2, 2),
      Obj(<<"f">>, 1, 3)>>

\* a bucket with BulkCount objects under uploads/ written before the scheme,
\* one after the other
BulkStore ==
    [i \in 1..BulkCount |-> Obj(UPLOAD_PREFIX \o <<"/", "o">> \o ToDigits(i), 1, i)] \o <<>>

\* wall clock (ms) when a run starts: the objects stored before are not newer
StartClock == Len(SmallStore)

\* the server is up, no request is being served
InitServer ==
    /\ clock = StartClock
    /\ up = [u \in Uploaders |-> IdleUpload]
    /\ ls = [l \in Listers |-> IdleList]
    /\ dl = IdleDl

\* any bucket state, an empty bucket; calls may fail
Init ==
    /\ InitServer
    /\ bucket \in {"absent", "private", "public"}
    /\ store = <<>>
    /\ faults = 0

\* any bucket state, an empty or a small bucket; calls may fail
InitFiles ==
    /\ InitServer
    /\ bucket \in {"absent", "private", "public"}
    /\ store \in IF bucket = "absent" THEN {<<>>} ELSE {<<>>, SmallStore}
    /\ faults = 0

\* the characters of the original filenames of SpecNaming
NameChars == {"a", "_", ".", " "}

\* a POST /api/upload request has arrived with one file, of any name up to
\* MaxNameLen, at one of two times; the bucket is public and empty and no
\* call fails
InitNaming ==
    /\ bucket = "public"
    /\ store = <<>>
    /\ faults = MaxFaults
    /\ clock \in {StartClock, 4 * StartClock}
    /\ \E f \in SeqsUpTo(NameChars, MaxNameLen) :
         up = [u \in Uploaders |->
                 IF u = "u1" THEN [IdleUpload EXCEPT !.pc = "get", !.files = <<File(f, 1)>>]
                 ELSE IdleUpload]
    /\ ls = [l \in Listers |-> IdleList]
    /\ dl = IdleDl

\* the batch of the upload of SpecPaging: MaxBatch files
PagingBatch ==
    [i \in 1..MaxBatch |-> File(IF i % 2 = 1 THEN Str_a_p ELSE Str_b_p, 1)] \o <<>>

\* a POST /api/upload request has arrived with a batch, on a public bucket
\* that is small or has an uploads/ that fills a page; no GET /api/files
\* request has arrived yet, and no call fails
InitPaging ==
    /\ bucket = "public"
    /\ store \in {SmallStore, BulkStore}
    /\ faults = MaxFaults
    /\ clock = Len(store)
    /\ up = [u \in Uploaders |->
               IF u = "u1" THEN [IdleUpload EXCEPT !.pc = "get", !.files = PagingBatch]
               ELSE IdleUpload]
    /\ ls = [l \in Listers |-> IdleList]
    /\ dl = IdleDl

\* ------------------------------------------------------------------------
\* Actions
\* ------------------------------------------------------------------------
\* a millisecond passes
Tick ==
    /\ clock < StartClock + MaxTicks
    /\ clock' = clock + 1
    /\ UNCHANGED <<bucket, store, faults, up, ls, dl>>

\* POST /api/upload arrives with a batch; ensureBucket calls getBucket
U_Start(u) ==
    /\ up[u].pc = "idle"
    /\ \E b \in Batches(u) : up' = [up EXCEPT ![u] = [@ EXCEPT !.pc = "get", !.files = b]]
    /\ UNCHANGED <<bucket, store, clock, faults, ls, dl>>

\* getBucket answers
U_GetBucket(u) ==
    /\ up[u].pc = "get"
    /\ \E fail \in FaultChoices :
         /\ faults' = Faulted(fail)
         /\ up' = [up EXCEPT ![u] =
                      IF AfterGetBucket(fail) = "ensured" THEN UploadAfterEnsure(@)
                      ELSE [@ EXCEPT !.pc = AfterGetBucket(fail)]]
    /\ UNCHANGED <<bucket, store, clock, ls, dl>>

\* createBucket answers; ensureBucket returns
U_CreateBucket(u) ==
    /\ up[u].pc = "create"
    /\ \E fail \in FaultChoices :
         /\ faults' = Faulted(fail)
         /\ bucket' = BucketAfterCreate(fail)
    /\ up' = [up EXCEPT ![u] = UploadAfterEnsure(@)]
    /\ UNCHANGED <<store, clock, ls, dl>>

\* updateBucket answers; ensureBucket returns
U_UpdateBucket(u) ==
    /\ up[u].pc = "update"
    /\ \E fail \in FaultChoices :
         /\ faults' = Faulted(fail)
         /\ bucket' = BucketAfterUpdate(fail)
    /\ up' = [up EXCEPT ![u] = UploadAfterEnsure(@)]
    /\ UNCHANGED <<store, clock, ls, dl>>

\* the upload call of file i answers
U_Put(u) ==
    /\ up[u].pc = "put"
    /\ LET r == up[u]
           f == r.files[r.i]
           key == UploadKey(f.originalname, r.now)
       IN  \E fail \in FaultChoices :
             LET err == UploadError(store, key, Upsert, fail)
             IN  /\ faults' = Faulted(fail)
                 /\ store' = IF err = "none" THEN StoreUpload(store, key, f.size)
                              ELSE store
                 /\ up' = [up EXCEPT ![u] = UploadAfterPut(r, key, err)]
    /\ UNCHANGED <<bucket, clock, ls, dl>>

\* GET /api/files arrives; ensureBucket calls getBucket
L_Start(l) ==
    /\ ls[l].pc = "idle"
    /\ ls' = [ls EXCEPT ![l] = [@ EXCEPT !.pc = "get", !.startLen = Len(store)]]
    /\ UNCHANGED <<bucket, store, clock, faults, up, dl>>

L_GetBucket(l) ==
    /\ ls[l].pc = "get"
    /\ \E fail \in FaultChoices :
         /\ faults' = Faulted(fail)
         /\ ls' = [ls EXCEPT ![l] =
                      IF AfterGetBucket(fail) = "ensured" THEN ListAfterEnsure(@)
                      ELSE [@ EXCEPT !.pc = AfterGetBucket(fail)]]
    /\ UNCHANGED <<bucket, store, clock, up, dl>>

L_CreateBucket(l) ==
    /\ ls[l].pc = "create"
    /\ \E fail \in FaultChoices :
         /\ faults' = Faulted(fail)
         /\ bucket' = BucketAfterCreate(fail)
    /\ ls' = [ls EXCEPT ![l] = ListAfterEnsure(@)]
    /\ UNCHANGED <<store, clock, up, dl>>

L_UpdateBucket(l) ==
    /\ ls[l].pc = "update"
    /\ \E fail \in FaultChoices :
         /\ faults' = Faulted(fail)
         /\ bucket' = BucketAfterUpdate(fail)
    /\ ls' = [ls EXCEPT ![l] = ListAfterEnsure(@)]
    /\ UNCHANGED <<store, clock, up, dl>>

\* the page listFolder awaits answers
L_Page(l) ==
    /\ ls[l].pc = "list"
    /\ LET r == ls[l]
           f == r.stack[Len(r.stack)]
       IN  \E fail \in FaultChoices :
             /\ faults' = Faulted(fail)
             /\ ls' = [ls EXCEPT ![l] =
                          ListAfterPage(r, ListError(fail),
                                        ListByUpdated(store, f.prefix, limit, f.offset))]
    /\ UNCHANGED <<bucket, store, clock, up, dl>>

\* list("") of the legacy scan answers
L_RootList(l) ==
    /\ ls[l].pc = "rootList"
    /\ \E fail \in FaultChoices :
         /\ faults' = Faulted(fail)
         /\ ls' = [ls EXCEPT ![l] =
                      ListAfterRootList(@, ListError(fail), ListByName(store, <<>>, limit))]
    /\ UNCHANGED <<bucket, store, clock, up, dl>>

\* list(y) of the legacy scan answers
L_YearList(l) ==
    /\ ls[l].pc = "yearList"
    /\ \E fail \in FaultChoices :
         /\ faults' = Faulted(fail)
         /\ ls' = [ls EXCEPT ![l] =
                      ListAfterYearList(@, ListError(fail),
                                        ListByName(store, ls[l].year, limit))]
    /\ UNCHANGED <<bucket, store, clock, up, dl>>

\* the queries of GET /api/dl: the key of a stored object, of an upload in
\* flight, or of no object; no key; the key given twice
DlQueries ==
    {Query("string", k) :
        k \in StoredKeys(store)
               \cup {UploadKey(up[u].files[up[u].i].originalname, up[u].now) :
                        u \in {v \in Uploaders : up[v].pc = "put"}}
               \cup {<<>>, <<"f">>}}
    \cup {Query("undefined", <<>>), Query("array", <<"f">>)}

\* GET /api/dl arrives and runs to its await, or answers 400 or 500
D_Start ==
    /\ dl.pc = "idle"
    /\ \E q \in DlQueries : dl' = DlStart(dl, q)
    /\ UNCHANGED <<bucket, store, clock, faults, up, ls>>

\* the backend serves createSignedUrl; the handler has not resumed yet
D_Sign ==
    /\ dl.pc = "sign"
    /\ dl.reply = "none"
    /\ \E fail \in FaultChoices :
         /\ faults' = Faulted(fail)
         /\ dl' = [dl EXCEPT !.reply = IF SignError(store, dl.key, fail)
                                       THEN "error" ELSE "ok"]
    /\ UNCHANGED <<bucket, store, clock, up, ls>>

\* the handler resumes with the backend's answer and responds
D_Resume ==
    /\ dl.pc = "sign"
    /\ dl.reply # "none"
    /\ dl' = DlAfterSign(dl)
    /\ UNCHANGED <<bucket, store, clock, faults, up, ls>>

\* concurrent POST /api/upload requests
Next ==
    \/ Tick
    \/ \E u \in Uploaders : U_Start(u)
    \/ \E u \in Uploaders : U_GetBucket(u)
    \/ \E u \in Uploaders : U_CreateBucket(u)
    \/ \E u \in Uploaders : U_UpdateBucket(u)
    \/ \E u \in Uploaders : U_Put(u)

Spec == Init /\ [][Next]_vars

\* one GET /api/files request concurrent with a POST /api/upload request
NextFiles ==
    \/ Tick
    \/ U_Start("u1")
    \/ U_GetBucket("u1")
    \/ U_CreateBucket("u1")
    \/ U_UpdateBucket("u1")
    \/ U_Put("u1")
    \/ L_Start("l1")
    \/ L_GetBucket("l1")
    \/ L_CreateBucket("l1")
    \/ L_UpdateBucket("l1")
    \/ L_Page("l1")
    \/ L_RootList("l1")
    \/ L_YearList("l1")

SpecFiles == InitFiles /\ [][NextFiles]_vars

\* two GET /api/files requests concurrent with each other and with the
\* batch of a POST /api/upload request, within one millisecond on a public
\* bucket, with no failing call
NextPaging ==
    \/ U_GetBucket("u1")
    \/ U_Put("u1")
    \/ \E l \in Listers : L_Start(l)
    \/ \E l \in Listers : L_GetBucket(l)
    \/ \E l \in Listers : L_Page(l)
    \/ \E l \in Listers : L_RootList(l)
    \/ \E l \in Listers : L_YearList(l)

SpecPaging == InitPaging /\ [][NextPaging]_vars

\* one uploaded file of any name, listed and downloaded
NextNaming ==
    \/ U_GetBucket("u1")
    \/ U_Put("u1")
    \/ L_Start("l1")
    \/ L_GetBucket("l1")
    \/ L_Page("l1")
    \/ L_RootList("l1")
    \/ D_Start
    \/ D_Sign
    \/ D_Resume

SpecNaming == InitNaming /\ [][NextNaming]_vars

\* ------------------------------------------------------------------------
\* Properties
\* ------------------------------------------------------------------------
Range(q) == {q[i] : i \in 1..Len(q)}

\* the objects stay in the order of their updated_at, which the listing of
\* the backend relies on
StoreOrdered ==
    \A i \in 1..(Len(store) - 1) : store[i].updated_at < store[i + 1].updated_at

TypeOK ==
    /\ bucket \in {"absent", "private", "public"}
    /\ clock \in StartClock..(4 * StartClock + BulkCount + MaxTicks)
    /\ faults \in 0..MaxFaults
    /\ \A u \in Uploaders :
         up[u].pc \in {"idle", "get", "create", "update", "put", "done"}
    /\ \A l \in Listers :
         ls[l].pc \in {"idle", "get", "create", "update", "list", "rootList",
                        "yearList", "done"}
    /\ dl.pc \in {"idle", "sign"}
    /\ dl.reply \in {"none", "ok", "error"}
    /\ dl.resp.status \in {0, 302, 400, 404, 500}
    /\ Cardinality(StoredKeys(store)) = Len(store)

UploadDone(u) == up[u].pc = "done"

ListDone200(l) == ls[l].pc = "done" /\ ls[l].resp.status = 200

\* the key of the upload call a request awaits
PutKey(r) == UploadKey(r.files[r.i].originalname, r.now)

ObjTriple(o) == <<o.key, o.size, o.updated_at>>

ItemTriple(it) == <<it.key, it.size, it.uploadedAt>>

\* C1: when POST /api/upload answers 500, none of the files of its batch is
\* left stored
C1_UploadAllOrNothing ==
    \A u \in Uploaders :
        (UploadDone(u) /\ up[u].resp.status = 500)
            => \A k \in Range(up[u].keys) : k \notin StoredKeys(store)

\* C2: a stored object is never overwritten or changed, and an upload call
\* on an existing key fails with a key conflict (unless the call itself
\* failed), stores nothing and makes the request answer 500
C2_NoOverwrite ==
    [][/\ Len(store') >= Len(store) /\ SubSeq(store', 1, Len(store)) = store
       /\ \A u \in Uploaders :
            (/\ up[u].pc = "put"
             /\ up'[u] # up[u]
             /\ PutKey(up[u]) \in StoredKeys(store))
                => /\ store' = store
                   /\ up'[u].pc = "done"
                   /\ up'[u].resp.status = 500
                   /\ up'[u].resp.body.error = KeyConflict \/ faults' > faults]_vars

\* two requests computed the same key in the same millisecond; one stored it,
\* the other got the key conflict and stored nothing
C2_Witness ==
    \E u, v \in Uploaders :
        /\ u # v
        /\ UploadDone(u) /\ up[u].resp.status = 500
        /\ up[u].resp.body.error = KeyConflict
        /\ up[u].now = up[v].now
        /\ PutKey(up[u]) \in Range(up[v].keys)
        /\ \E i \in 1..Len(store) :
             store[i].key = PutKey(up[u]) /\ store[i].size = PayloadSize(v)

\* C3: a GET /api/files request in which a list call failed answers 500
C3_ListFailureIs500 ==
    \A l \in Listers :
        (ls[l].pc = "done" /\ ls[l].failed) => ls[l].resp.status = 500

\* C4: the redirect of GET /api/dl for a key base__timestamp.ext forces the
\* download name that GET /api/files shows for the key: base and extension
C4_DlNameIsDisplayName ==
    (/\ dl.resp.status = 302
     /\ IndexOf(LastSegment(dl.resp.key), MARK) # 0
     /\ extname(dl.resp.key) # <<>>)
        => dl.resp.download = DisplayName(LastSegment(dl.resp.key))

NoTwoAlike(items, T(_)) ==
    \A i, j \in 1..Len(items) : i # j => T(items[i]) # T(items[j])

UrlTriple(it) == <<it.url, it.size, it.uploadedAt>>

\* C5: a 200 answer of GET /api/files has no two items with the same
\* (key, size, uploadedAt); in the second server, the same (url, size,
\* uploadedAt)
C5_NoDuplicateItems ==
    \A l \in Listers :
        ListDone200(l)
            => /\ NoTwoAlike(ls[l].resp.body, ItemTriple)
               /\ NoTwoAlike(FilesResponseV2(ls[l].collected).body, UrlTriple)

\* an object under uploads/ and a legacy object were each reached by two
\* scans of one request
C5_Witness ==
    \E l \in Listers :
        /\ ListDone200(l)
        /\ \E i, j \in 1..Len(ls[l].collected) :
             /\ i < j
             /\ ls[l].collected[i] = ls[l].collected[j]
             /\ StartsWith(ls[l].collected[i].key, Dir(UPLOAD_PREFIX))
        /\ \E i, j \in 1..Len(ls[l].collected) :
             /\ i < j
             /\ ls[l].collected[i] = ls[l].collected[j]
             /\ StartsWith(ls[l].collected[i].key, Str_2023)

\* the (key, size, uploadedAt) of the items of an answer, and of the first n
\* objects written to the bucket
ItemTriples(items) == {ItemTriple(items[i]) : i \in 1..Len(items)}

ObjTriples(n) == {ObjTriple(store[i]) : i \in 1..n}

C7_BucketPublicBeforeUse ==
    /\ \A u \in Uploaders : up[u].pc = "put" => bucket = "public"
    /\ \A l \in Listers :
         ls[l].pc \in {"list", "rootList", "yearList"} => bucket = "public"

\* C8: the display name GET /api/files shows for an uploaded file is the
\* sanitized base of its original name followed by its extension
C8_RoundTrip ==
    \A l \in Listers :
        ListDone200(l)
            => \A it \in Range(ls[l].resp.body) :
                 \A u \in Uploaders :
                   \A i \in 1..Len(up[u].keys) :
                     up[u].keys[i] = it.key
                       => LET f == up[u].files[i].originalname
                          IN  it.name = sanitize(basename(f, extname(f))) \o extname(f)

\* C9: a POST /api/upload request with zero files answers success with
\* count 0 and a present, empty file list, and stores nothing
C9_ZeroFiles ==
    \A u \in Uploaders :
        (UploadDone(u) /\ Len(up[u].files) = 0)
            => /\ up[u].resp.status = 200
               /\ up[u].resp.body.count = 0
               /\ up[u].keys = <<>>
               /\ "files" \in DOMAIN up[u].resp.body
               /\ up[u].resp.body.files = <<>>

NewestFirst(items) ==
    \A i \in 1..(Len(items) - 1) : items[i].uploadedAt >= items[i + 1].uploadedAt

\* C10: the items of a 200 answer of GET /api/files are ordered newest first
C10_NewestFirst ==
    \A l \in Listers :
        ListDone200(l)
            => /\ NewestFirst(ls[l].resp.body)
               /\ NewestFirst(FilesResponseV2(ls[l].collected).body)

\* the scans delivered an older item before a newer one, and the answer has
\* at least three items
C10_Witness ==
    \E l \in Listers :
        /\ ListDone200(l)
        /\ Len(ls[l].resp.body) >= 3
        /\ \E i \in 1..(Len(ls[l].collected) - 1) :
             ls[l].collected[i].uploadedAt < ls[l].collected[i + 1].uploadedAt

====
